---- MODULE Spec2Model ----
(***************************************************************************)
(* Model of meta_package_manager.7h.py (BitBar plugin, Python 2).          *)
(*                                                                         *)
(* Text is modelled by its structure: a string that the code splits on     *)
(* spaces is a sequence of tokens, a multi-line output is a sequence of    *)
(* lines, a JSON document is the sequence of its elements.  A line is a    *)
(* record naming the grammar it was written in, so that a regular          *)
(* expression matches exactly the lines of its own grammar.                *)
(***************************************************************************)
EXTENDS Integers, Sequences, FiniteSets, TLC

\* Python's None.
None == "None"

(***************************************************************************)
(* Bounds of the model.                                                    *)
(***************************************************************************)
\* Most lines (or JSON elements) in one output of an external tool.
MaxLines == 3
\* Most calls of sync() on one adapter instance by a client of the class.
MaxSyncs == 2
\* Most package managers installed on the host (active adapters).
MaxActive == 2

(***************************************************************************)
(* Generic helpers.                                                        *)
(***************************************************************************)
Min(a, b) == IF a < b THEN a ELSE b

Range(s) == {s[i] : i \in DOMAIN s}

\* s with x inserted so that x is at position p.
InsertAt(s, p, x) == SubSeq(s, 1, p - 1) \o <<x>> \o SubSeq(s, p, Len(s))

\* s without its element at position p.
RemoveAt(s, p) == SubSeq(s, 1, p - 1) \o SubSeq(s, p + 1, Len(s))

(***************************************************************************)
(* String order.  Python compares unicode strings by code point; the       *)
(* version strings the model compares are listed here in that order.       *)
(***************************************************************************)
CodePointOrder ==
    <<"1.2beta5", "2016.07.01", "2016.07.06", "3.5", "49.0.1", "50.0.1",
      "7.4.1967", "7.4.1993", "latest", "v2">>

StrRank(s) == CHOOSE i \in DOMAIN CodePointOrder : CodePointOrder[i] = s

StrLess(a, b) == StrRank(a) < StrRank(b)

\* max() of a non-empty list of strings.
RECURSIVE StrMax(_)
StrMax(l) ==
    IF Len(l) = 1 THEN l[1]
    ELSE LET m == StrMax(Tail(l)) IN IF StrLess(l[1], m) THEN m ELSE l[1]

\* sorted() of a list of strings (insertion into the sorted tail).
RECURSIVE Sorted(_)
Sorted(l) ==
    IF l = <<>> THEN <<>>
    ELSE LET rest == Sorted(Tail(l))
             k == Cardinality({i \in DOMAIN rest : StrLess(rest[i], l[1])})
         IN InsertAt(rest, k + 1, l[1])

(***************************************************************************)
(* The classes of the module, in the order print_menu instantiates them.   *)
(***************************************************************************)
ManagerOrder ==
    <<"Homebrew", "HomebrewCask", "Pip2", "Pip3", "APM", "NPM", "Gems", "MAS">>

Managers == Range(ManagerOrder)

\* Whether /usr/local/bin/gem exists is read by Gems.__init__.
HOMEBREW_PATH == "/usr/local/bin/gem"
SYSTEM_PATH == "/usr/bin/gem"

\* The class attribute cli (Gems: the property returning self._cli).
cli(cls, gemHomebrew) ==
    CASE cls \in {"Homebrew", "HomebrewCask"} -> "/usr/local/bin/brew"
      [] cls = "Pip2" -> "/usr/local/bin/pip2"
      [] cls = "Pip3" -> "/usr/local/bin/pip3"
      [] cls = "NPM" -> "/usr/local/bin/npm"
      [] cls = "APM" -> "/usr/local/bin/apm"
      [] cls = "Gems" -> IF gemHomebrew THEN HOMEBREW_PATH ELSE SYSTEM_PATH
      [] cls = "MAS" -> "/usr/local/bin/mas"
      [] OTHER -> None

(***************************************************************************)
(* What the external tools print.                                          *)
(***************************************************************************)
\* An empty line.
Blank == [kind |-> "blank"]
\* A line no regular expression of the module matches; as a JSON array
\* element, an object without any of the keys the adapters read.
Garbage == [kind |-> "garbage"]

\* The packages each tool may report, in the order it reports them.
Catalogue(cls) ==
    CASE cls = "Homebrew" ->
           <<[kind |-> "brew", name |-> "cassandra",
              installed_versions |-> <<"3.5">>, current_version |-> "3.7"],
             [kind |-> "brew", name |-> "vim",
              installed_versions |-> <<"7.4.1967", "7.4.1993">>,
              current_version |-> "8.0"],
             [kind |-> "brew", name |-> "youtube-dl",
              installed_versions |-> <<"2016.07.06", "2016.07.01">>,
              current_version |-> "2016.07.09.1"]>>
      [] cls = "HomebrewCask" ->
           <<[kind |-> "cask", name |-> "aerial", versions |-> <<"1.2beta5">>],
             [kind |-> "cask", name |-> "android-file-transfer",
              versions |-> <<"latest">>],
             [kind |-> "cask", name |-> "firefox",
              versions |-> <<"50.0.1", "latest">>]>>
      [] cls \in {"Pip", "Pip2", "Pip3"} ->
           <<[kind |-> "pip", name |-> "ccm",
              info |-> <<"2.1.8", "/Users/kdeldycke/ccm">>,
              latest |-> "2.1.11"],
             [kind |-> "pip", name |-> "coverage", info |-> <<"4.0.3">>,
              latest |-> "4.1"],
             [kind |-> "pip", name |-> "pylint", info |-> <<"1.5.6">>,
              latest |-> "1.6.1"]>>
      [] cls = "APM" ->
           <<[kind |-> "apm", name |-> "linter", version |-> "1.11.3",
              latestVersion |-> "1.11.4"],
             [kind |-> "apm", name |-> "minimap", version |-> "4.24.0",
              latestVersion |-> "4.25.0"],
             [kind |-> "apm", name |-> "pigments", version |-> "0.29.0",
              latestVersion |-> "0.31.0"]>>
      [] cls = "NPM" ->
           <<[kind |-> "npm", name |-> "npm", current |-> "3.10.3",
              wanted |-> "3.10.5", latest |-> "3.10.5"],
             [kind |-> "npm", name |-> "my-linked-package",
              current |-> "0.0.0-development", wanted |-> "linked",
              latest |-> "linked"],
             [kind |-> "npm", name |-> "gulp", wanted |-> "3.9.1",
              latest |-> "3.9.1"]>>
      [] cls = "Gems" ->
           <<[kind |-> "gem", name |-> "did_you_mean", current |-> "1.0.0",
              latest |-> "1.0.2"],
             [kind |-> "gem", name |-> "json", current |-> "1.8.3",
              latest |-> "2.0.1"],
             [kind |-> "gem", name |-> "minitest", current |-> "5.8.3",
              latest |-> "5.9.0"]>>
      [] cls = "MAS" ->
           <<[kind |-> "mas", id |-> "497799835", name |-> <<"Xcode">>,
              installed |-> "8.0", latest |-> "8.1"],
             [kind |-> "mas", id |-> "424389933",
              name |-> <<"Final", "Cut", "Pro">>, installed |-> "unknown",
              latest |-> "10.3"],
             [kind |-> "mas", id |-> "409183694", name |-> <<"Keynote">>,
              installed |-> "6.6", latest |-> "7.0"]>>
      [] OTHER -> <<>>

\* The adapters that read JSON.
JsonManagers == {"Homebrew", "APM", "NPM"}

\* The lines a listing may hold besides the packages.
Disturbances(cls) ==
    IF cls \in JsonManagers THEN {Garbage}
    ELSE IF cls = "HomebrewCask" THEN {Blank}
    ELSE {Garbage, Blank}

\* The first k packages of the catalogue, alone or with one other line,
\* in at most MaxLines lines.
Listings(cls) ==
    LET cat == Catalogue(cls)
    IN {SubSeq(cat, 1, k) : k \in 0..Min(MaxLines, Len(cat))}
       \cup UNION {{InsertAt(SubSeq(cat, 1, k), p, d) :
                       p \in 1..(k + 1), d \in Disturbances(cls)} :
                    k \in 0..Min(MaxLines - 1, Len(cat))}

\* The standard output of a "list outdated" command: the empty text, a text
\* of lines, or a JSON document (json = TRUE; body its elements).
Stdouts(cls) ==
    IF cls \in JsonManagers
    THEN {[json |-> FALSE, body |-> <<>>], [json |-> FALSE, body |-> <<Garbage>>]}
         \cup {[json |-> TRUE, body |-> b] :
                 b \in Listings(cls)}
    ELSE {[json |-> FALSE, body |-> b] : b \in Listings(cls)}

EmptyOut == [json |-> FALSE, body |-> <<>>]

(***************************************************************************)
(* PackageManager.run: one external command.  A result says whether the    *)
(* process could be started at all (spawn), its exit status and what it    *)
(* wrote.                                                                  *)
(***************************************************************************)
Completed(rc, out, err) == [spawn |-> TRUE, rc |-> rc, out |-> out, err |-> err]

\* The executable is gone: Popen raises OSError.
Vanished == [spawn |-> FALSE, rc |-> 0, out |-> EmptyOut, err |-> ""]

\* Mutant of run: the diagnostic text is kept whatever the exit status.
run_ignoring_status(program, res) ==
    IF program = None
    THEN [exc |-> "TypeError", error |-> None, output |-> EmptyOut, ran |-> FALSE]
    ELSE IF ~res.spawn
    THEN [exc |-> "OSError", error |-> None, output |-> EmptyOut, ran |-> FALSE]
    ELSE [exc |-> None,
          error |-> IF res.err # "" THEN res.err ELSE None,
          output |-> res.out, ran |-> TRUE]

\* self.error is cleared, then set when the exit status is not 0 and the
\* standard error is not empty; the standard output is returned.
\* Popen raises TypeError for the cli None of a base class.
run(program, res) ==
    IF program = None
    THEN [exc |-> "TypeError", error |-> None, output |-> EmptyOut, ran |-> FALSE]
    ELSE IF ~res.spawn
    THEN [exc |-> "OSError", error |-> None, output |-> EmptyOut, ran |-> FALSE]
    ELSE [exc |-> None,
          error |-> IF res.rc # 0 /\ res.err # "" THEN res.err ELSE None,
          output |-> res.out, ran |-> TRUE]

\* What run adds to the record of the commands a sync started: the command
\* line, its role in the sync, the exit status and diagnostic text of the
\* process and whether its standard output was empty.
Ran(r, res, role, argv) ==
    IF r.ran
    THEN <<[how |-> "Popen", argv |-> argv, role |-> role, rc |-> res.rc,
            err |-> res.err, empty |-> res.out = EmptyOut]>>
    ELSE <<>>

\* str.strip() of a multi-line text: leading and trailing empty lines go.
RECURSIVE LStrip(_)
LStrip(lines) ==
    IF lines # <<>> /\ Head(lines) = Blank THEN LStrip(Tail(lines)) ELSE lines

RECURSIVE RStrip(_)
RStrip(lines) ==
    IF lines # <<>> /\ lines[Len(lines)] = Blank
    THEN RStrip(SubSeq(lines, 1, Len(lines) - 1))
    ELSE lines

Strip(lines) == RStrip(LStrip(lines))

\* The state of an adapter after __init__.
EmptyMap == [n \in {} |-> None]

NewAdapter == [updates |-> <<>>, error |-> None, map |-> EmptyMap]

\* What a sync leaves: the adapter's fields, the exception it raised (None
\* when it returned) and the commands it started.
Outcome(ups, err, map, exc, cmds) ==
    [updates |-> ups, error |-> err, map |-> map, exc |-> exc, cmds |-> cmds]

(***************************************************************************)
(* Homebrew.sync                                                           *)
(***************************************************************************)
RECURSIVE Homebrew_loop(_, _)
Homebrew_loop(items, ups) ==
    IF items = <<>> THEN [updates |-> ups, exc |-> None]
    ELSE LET pkg_info == Head(items) IN
         IF pkg_info.kind # "brew" THEN [updates |-> ups, exc |-> "KeyError"]
         ELSE IF pkg_info.installed_versions = <<>>
         THEN [updates |-> ups, exc |-> "ValueError"]
         ELSE Homebrew_loop(Tail(items), Append(ups,
                [name |-> <<pkg_info.name>>,
                 installed_version |-> StrMax(pkg_info.installed_versions),
                 latest_version |-> pkg_info.current_version]))

\* Mutant of Homebrew_sync: the error of `brew update` is kept when
\* `brew outdated` reports none.
Homebrew_sync_keeping_error(self, program, io) ==
    LET a == run(program, io.pre)
        ca == Ran(a, io.pre, "update", <<program, "update">>)
    IN IF a.exc # None
       THEN Outcome(self.updates, a.error, self.map, a.exc, ca)
       ELSE
       LET b == run(program, io.list)
           cb == ca \o Ran(b, io.list, "list", <<program, "outdated", "--json=v1">>)
           e == IF b.error # None THEN b.error ELSE a.error
       IN IF b.exc # None
          THEN Outcome(self.updates, b.error, self.map, b.exc, cb)
          ELSE IF b.output = EmptyOut
          THEN Outcome(self.updates, e, self.map, None, cb)
          ELSE IF ~b.output.json
          THEN Outcome(self.updates, e, self.map, "ValueError", cb)
          ELSE LET l == Homebrew_loop(b.output.body, self.updates)
               IN Outcome(l.updates, e, self.map, l.exc, cb)

Homebrew_sync(self, program, io) ==
    LET a == run(program, io.pre)
        ca == Ran(a, io.pre, "update", <<program, "update">>)
    IN IF a.exc # None
       THEN Outcome(self.updates, a.error, self.map, a.exc, ca)
       ELSE
       LET b == run(program, io.list)
           cb == ca \o Ran(b, io.list, "list", <<program, "outdated", "--json=v1">>)
       IN IF b.exc # None
          THEN Outcome(self.updates, b.error, self.map, b.exc, cb)
          ELSE IF b.output = EmptyOut
          THEN Outcome(self.updates, b.error, self.map, None, cb)
          ELSE IF ~b.output.json
          THEN Outcome(self.updates, b.error, self.map, "ValueError", cb)
          ELSE LET l == Homebrew_loop(b.output.body, self.updates)
               IN Outcome(l.updates, b.error, self.map, l.exc, cb)

(***************************************************************************)
(* HomebrewCask.sync                                                       *)
(***************************************************************************)
\* The installed version guessed from the comma-separated versions of a
\* line of `brew cask list --versions`: the parts are stripped, the empty
\* ones dropped and the rest sorted; "latest" is removed when another entry
\* is left; the last entry is kept, "?" when there is none.
RemoveFirst(l, x) ==
    IF \E i \in DOMAIN l : l[i] = x
    THEN RemoveAt(l, CHOOSE i \in DOMAIN l :
                        l[i] = x /\ \A j \in 1..(i - 1) : l[j] # x)
    ELSE l

\* Mutant of InstalledVersion: "latest" is never removed.
InstalledVersion_keeping_latest(parts) ==
    LET versions == Sorted(SelectSeq(parts, LAMBDA v : v # ""))
    IN IF versions # <<>> THEN versions[Len(versions)] ELSE "?"

InstalledVersion(parts) ==
    LET versions == Sorted(SelectSeq(parts, LAMBDA v : v # ""))
        kept == IF Len(versions) > 1 /\ "latest" \in Range(versions)
                THEN RemoveFirst(versions, "latest")
                ELSE versions
    IN IF kept # <<>> THEN kept[Len(kept)] ELSE "?"

\* output.split('\n')[0].split(' ') of `brew cask info`.
FirstLineTokens(out) ==
    IF out.body = <<>> \/ Head(out.body).kind # "info" THEN <<"">>
    ELSE Head(out.body).tokens

\* The loop over the installed packages; st holds updates, error and cmds.
RECURSIVE HomebrewCask_loop(_, _, _, _, _)
HomebrewCask_loop(lines, i, program, infos, st) ==
    IF i > Len(lines) THEN [st EXCEPT !.exc = None]
    ELSE IF lines[i] = Blank
    THEN HomebrewCask_loop(lines, i + 1, program, infos, st)
    ELSE LET name == lines[i].name
             version == InstalledVersion(lines[i].versions)
             r == run(program, infos[i])
             cmds == st.cmds \o Ran(r, infos[i], "info",
                                     <<program, "cask", "info", name>>)
             toks == FirstLineTokens(r.output)
         IN IF r.exc # None
            THEN [st EXCEPT !.error = r.error, !.cmds = cmds, !.exc = r.exc]
            ELSE IF Len(toks) < 2
            THEN [st EXCEPT !.error = r.error, !.cmds = cmds,
                            !.exc = "IndexError"]
            ELSE IF version = toks[2]
            THEN HomebrewCask_loop(lines, i + 1, program, infos,
                    [st EXCEPT !.error = r.error, !.cmds = cmds])
            ELSE HomebrewCask_loop(lines, i + 1, program, infos,
                    [st EXCEPT !.error = r.error, !.cmds = cmds,
                               !.updates = Append(@,
                                  [name |-> <<name>>,
                                   installed_version |-> version,
                                   latest_version |-> toks[2]])])

HomebrewCask_sync(self, program, io) ==
    LET a == run(program, io.pre)
        ca == Ran(a, io.pre, "update", <<program, "cask", "update">>)
    IN IF a.exc # None
       THEN Outcome(self.updates, a.error, self.map, a.exc, ca)
       ELSE
       LET b == run(program, io.list)
           cb == ca \o Ran(b, io.list, "list", <<program, "cask", "list", "--versions">>)
       IN IF b.exc # None
          THEN Outcome(self.updates, b.error, self.map, b.exc, cb)
          ELSE HomebrewCask_loop(Strip(b.output.body), 1, program, io.info,
                  Outcome(self.updates, b.error, self.map, None, cb))

(***************************************************************************)
(* Pip.sync                                                                *)
(***************************************************************************)
\* " ({})".format(location) is one more token of the name when the
\* location holds no space.
Parenthesised(location) ==
    CASE location = "/Users/kdeldycke/ccm" -> "(/Users/kdeldycke/ccm)"
      [] OTHER -> "()"

RECURSIVE Pip_loop(_, _)
Pip_loop(lines, ups) ==
    IF lines = <<>> THEN [updates |-> ups, exc |-> None]
    ELSE LET outdated_pkg == Head(lines) IN
         IF outdated_pkg = Blank THEN Pip_loop(Tail(lines), ups)
         ELSE IF outdated_pkg.kind # "pip"
         THEN [updates |-> ups, exc |-> "AttributeError"]
         ELSE LET installed_info == outdated_pkg.info
                  special_location ==
                      IF Len(installed_info) > 1
                      THEN <<Parenthesised(installed_info[2])>>
                      ELSE <<>>
              IN Pip_loop(Tail(lines), Append(ups,
                    [name |-> <<outdated_pkg.name>> \o special_location,
                     installed_version |-> installed_info[1],
                     latest_version |-> outdated_pkg.latest]))

Pip_sync(self, program, io) ==
    LET a == run(program, io.list)
        ca == Ran(a, io.list, "list", <<program, "list", "--outdated">>)
        output == Strip(a.output.body)
    IN IF a.exc # None
       THEN Outcome(self.updates, a.error, self.map, a.exc, ca)
       ELSE IF output = <<>>
       THEN Outcome(self.updates, a.error, self.map, None, ca)
       ELSE LET l == Pip_loop(output, self.updates)
            IN Outcome(l.updates, a.error, self.map, l.exc, ca)

(***************************************************************************)
(* NPM.sync.  The document is a JSON object; iteritems() of a Python 2     *)
(* dict visits its items in an order that is a function of the keys, here  *)
(* the order of the document.                                              *)
(***************************************************************************)
RECURSIVE NPM_loop(_, _)
NPM_loop(items, ups) ==
    IF items = <<>> THEN [updates |-> ups, exc |-> None]
    ELSE LET values == Head(items) IN
         IF "wanted" \notin DOMAIN values
         THEN [updates |-> ups, exc |-> "KeyError"]
         ELSE IF values.wanted = "linked" THEN NPM_loop(Tail(items), ups)
         ELSE NPM_loop(Tail(items), Append(ups,
                [name |-> <<values.name>>,
                 installed_version |->
                     IF "current" \in DOMAIN values THEN values.current ELSE "",
                 latest_version |-> values.latest]))

NPM_sync(self, program, io) ==
    LET a == run(program, io.list)
        ca == Ran(a, io.list, "list", <<program, "-g", "--progress=false", "--json", "outdated">>)
    IN IF a.exc # None
       THEN Outcome(self.updates, a.error, self.map, a.exc, ca)
       ELSE IF a.output = EmptyOut
       THEN Outcome(self.updates, a.error, self.map, None, ca)
       ELSE IF ~a.output.json
       THEN Outcome(self.updates, a.error, self.map, "ValueError", ca)
       ELSE LET l == NPM_loop(a.output.body, self.updates)
            IN Outcome(l.updates, a.error, self.map, l.exc, ca)

(***************************************************************************)
(* APM.sync                                                                *)
(***************************************************************************)
RECURSIVE APM_loop(_, _)
APM_loop(items, ups) ==
    IF items = <<>> THEN [updates |-> ups, exc |-> None]
    ELSE LET package == Head(items) IN
         IF package.kind # "apm" THEN [updates |-> ups, exc |-> "KeyError"]
         ELSE APM_loop(Tail(items), Append(ups,
                [name |-> <<package.name>>,
                 installed_version |-> package.version,
                 latest_version |-> package.latestVersion]))

APM_sync(self, program, io) ==
    LET a == run(program, io.list)
        ca == Ran(a, io.list, "list", <<program, "outdated", "--compatible", "--json">>)
    IN IF a.exc # None
       THEN Outcome(self.updates, a.error, self.map, a.exc, ca)
       ELSE IF a.output = EmptyOut
       THEN Outcome(self.updates, a.error, self.map, None, ca)
       ELSE IF ~a.output.json
       THEN Outcome(self.updates, a.error, self.map, "ValueError", ca)
       ELSE LET l == APM_loop(a.output.body, self.updates)
            IN Outcome(l.updates, a.error, self.map, l.exc, ca)

(***************************************************************************)
(* Gems.sync                                                               *)
(***************************************************************************)
RECURSIVE Gems_loop(_, _)
Gems_loop(lines, ups) ==
    IF lines = <<>> THEN [updates |-> ups, exc |-> None]
    ELSE LET package == Head(lines) IN
         IF package = Blank THEN Gems_loop(Tail(lines), ups)
         ELSE IF package.kind # "gem"
         THEN [updates |-> ups, exc |-> "AttributeError"]
         ELSE Gems_loop(Tail(lines), Append(ups,
                [name |-> <<package.name>>,
                 installed_version |-> package.current,
                 latest_version |-> package.latest]))

Gems_sync(self, program, io) ==
    LET a == run(program, io.list)
        ca == Ran(a, io.list, "list", <<program, "outdated">>)
    IN IF a.exc # None
       THEN Outcome(self.updates, a.error, self.map, a.exc, ca)
       ELSE LET l == Gems_loop(a.output.body, self.updates)
            IN Outcome(l.updates, a.error, self.map, l.exc, ca)

(***************************************************************************)
(* MAS.sync                                                                *)
(***************************************************************************)
\* self.map[name] = _id
MapPut(map, name, id) ==
    [n \in DOMAIN map \cup {name} |-> IF n = name THEN id ELSE map[n]]

RECURSIVE MAS_loop(_, _, _)
MAS_loop(lines, ups, map) ==
    IF lines = <<>> THEN [updates |-> ups, map |-> map, exc |-> None]
    ELSE LET application == Head(lines) IN
         IF application = Blank THEN MAS_loop(Tail(lines), ups, map)
         ELSE IF application.kind # "mas"
         THEN [updates |-> ups, map |-> map, exc |-> "AttributeError"]
         ELSE MAS_loop(Tail(lines),
                Append(ups,
                   [name |-> application.name,
                    installed_version |->
                        IF application.installed # "unknown"
                        THEN application.installed ELSE "",
                    latest_version |-> application.latest]),
                MapPut(map, application.name, application.id))

MAS_sync(self, program, io) ==
    LET a == run(program, io.list)
        ca == Ran(a, io.list, "list", <<program, "outdated">>)
    IN IF a.exc # None
       THEN Outcome(self.updates, a.error, self.map, a.exc, ca)
       ELSE IF a.output.body = <<>>
       THEN Outcome(self.updates, a.error, self.map, None, ca)
       ELSE LET l == MAS_loop(a.output.body, self.updates, self.map)
            IN Outcome(l.updates, a.error, l.map, l.exc, ca)

(***************************************************************************)
(* sync() of an instance of class cls (method resolution).                 *)
(***************************************************************************)
sync(cls, self, program, io) ==
    CASE cls = "Homebrew" -> Homebrew_sync(self, program, io)
      [] cls = "HomebrewCask" -> HomebrewCask_sync(self, program, io)
      [] cls \in {"Pip", "Pip2", "Pip3"} -> Pip_sync(self, program, io)
      [] cls = "NPM" -> NPM_sync(self, program, io)
      [] cls = "APM" -> APM_sync(self, program, io)
      [] cls = "Gems" -> Gems_sync(self, program, io)
      [] cls = "MAS" -> MAS_sync(self, program, io)
      [] OTHER -> Outcome(self.updates, self.error, self.map,
                          "NotImplementedError", <<>>)

(***************************************************************************)
(* What the tools may answer to the commands of one sync.                  *)
(***************************************************************************)
\* Exit statuses and diagnostic texts; each command has its own text.
ExitCodes == {0, 1}

ListResults(cls) ==
    {Completed(rc, out, err) :
        rc \in ExitCodes, out \in Stdouts(cls), err \in {"", "list failed"}}
    \cup {Vanished}

\* `brew update` and `brew cask update`: the output is not read.
PreResults ==
    {Completed(0, EmptyOut, ""), Completed(1, EmptyOut, "update failed"), Vanished}

NoResult == Completed(0, EmptyOut, "")

\* `brew cask info <name>`: "<name>: <latest version>" is the first line.
InfoOut(version) ==
    [json |-> FALSE, body |-> <<[kind |-> "info", tokens |-> <<"cask:", version>>]>>]

\* The latest version of each cask of the catalogue.
LatestCask(cask) ==
    CASE cask = "aerial" -> "1.3"
      [] cask = "android-file-transfer" -> "latest"
      [] OTHER -> "51.0"

\* The answers to the `brew cask info` of each installed line: every call
\* succeeds, or one of them fails, with or without its output.
InfoAnswers(lines) ==
    LET casks == {i \in DOMAIN lines : lines[i] # Blank}
        good == [i \in DOMAIN lines |->
                    IF i \in casks
                    THEN Completed(0, InfoOut(LatestCask(lines[i].name)), "")
                    ELSE NoResult]
    IN {good}
       \cup {[good EXCEPT ![i] = Completed(1, @.out, "info failed")] : i \in casks}
       \cup {[good EXCEPT ![i] = Completed(1, EmptyOut, "info failed")] : i \in casks}

\* The answers to all the commands of one sync of an instance of cls.
IOs(cls) ==
    IF cls = "Homebrew"
    THEN [pre : PreResults, list : ListResults(cls), info : {<<>>}]
    ELSE IF cls = "HomebrewCask"
    THEN UNION {[pre : PreResults, list : {l},
                 info : InfoAnswers(Strip(l.out.body))] :
                l \in ListResults(cls)}
    ELSE [pre : {NoResult}, list : ListResults(cls), info : {<<>>}]

(***************************************************************************)
(* Command synthesis.  A command line is the sequence of its tokens; a     *)
(* package name is the sequence of the tokens it holds (one, unless the    *)
(* name holds spaces); no name is <<>>.                                    *)
(***************************************************************************)
\* sys.argv[0]: the path the plugin was started with.
ScriptPath == "/plugins/meta_package_manager.7h.py"

\* What a method returning None returns where a descriptor is expected.
NoneValue == [kind |-> "None"]

\* "bash=<cmd> param1=<p1> param2=<p2> ...": the command before the first
\* space, then one parameter per space-separated piece of the rest.
bitbar_cli_format(full_cli) ==
    IF Len(full_cli) < 2 THEN [kind |-> "ValueError"]
    ELSE [kind |-> "cli", bash |-> Head(full_cli), params |-> Tail(full_cli)]

\* The property `name`: the class name unless the class overrides it.
name(cls) ==
    CASE cls = "Pip2" -> "Python 2 pip"
      [] cls = "Pip3" -> "Python 3 pip"
      [] cls = "NPM" -> "npm"
      [] cls = "APM" -> "apm"
      [] cls = "Gems" -> "Ruby Gems"
      [] cls = "MAS" -> "Mac AppStore"
      [] OTHER -> cls

\* Mutant of _update_all_cmd: the display name instead of the class name.
_update_all_cmd_by_name(cls) == <<ScriptPath, "upgrade", name(cls)>>

\* PackageManager._update_all_cmd
_update_all_cmd(cls) == <<ScriptPath, "upgrade", cls>>

\* update_cli(package_name) of an instance of cls.
update_cli(cls, self, program, gemHomebrew, package_name) ==
    CASE cls = "Homebrew" ->
           bitbar_cli_format(<<program, "upgrade", "--cleanup">> \o package_name)
      [] cls = "HomebrewCask" ->
           bitbar_cli_format(<<program, "cask", "reinstall">> \o package_name)
      [] cls \in {"Pip", "Pip2", "Pip3"} ->
           bitbar_cli_format(<<program, "install", "--upgrade">> \o package_name)
      [] cls = "NPM" ->
           bitbar_cli_format(
               <<program, "-g", "--progress=false", "update">> \o package_name)
      [] cls = "APM" ->
           bitbar_cli_format(<<program, "update", "--no-confirm">> \o package_name)
      [] cls = "Gems" ->
           bitbar_cli_format(
               (IF gemHomebrew THEN <<>> ELSE <<"/usr/bin/sudo">>)
               \o <<program, "update">> \o package_name)
      [] cls = "MAS" ->
           IF package_name \notin DOMAIN self.map THEN NoneValue
           ELSE bitbar_cli_format(<<program, "install", self.map[package_name]>>)
      [] OTHER -> [kind |-> "NotImplementedError"]

\* update_all_cli() of an instance of cls.
update_all_cli(cls, self, program, gemHomebrew) ==
    CASE cls \in {"Homebrew", "NPM", "APM", "Gems"} ->
           update_cli(cls, self, program, gemHomebrew, <<>>)
      [] cls \in {"HomebrewCask", "Pip", "Pip2", "Pip3"} ->
           bitbar_cli_format(_update_all_cmd(cls))
      [] cls = "MAS" -> bitbar_cli_format(<<program, "upgrade">>)
      [] OTHER -> [kind |-> "NotImplementedError"]

(***************************************************************************)
(* The names of the module's global scope that the upgrade sub-command     *)
(* may be given, and what globals()[name]() does with each.                *)
(***************************************************************************)
Classes == Managers \cup {"PackageManager", "Pip"}

\* Names bound to something that is no class: a function, and values that
\* cannot be called (modules, strings, the parser).
GlobalFunctions == {"print_menu"}
GlobalUncallables == {"os", "json", "re", "sys", "PIPE", "__name__", "parser"}

GlobalNames == Classes \cup GlobalFunctions \cup GlobalUncallables

\* The class an identifier is resolved to, None when it names no class.
ClassNamed(identifier) == IF identifier \in Classes THEN identifier ELSE None

\* Mutant of update_all_cmd_owner: every class has an update_all_cmd of its
\* own.
update_all_cmd_owner_every_class(cls) ==
    IF cls \in {"PackageManager", "Pip"} THEN None ELSE cls

\* The class whose update_all_cmd an instance of cls runs: the classes that
\* define it, None for those that inherit PackageManager's `pass`.
update_all_cmd_owner(cls) ==
    CASE cls = "HomebrewCask" -> "HomebrewCask"
      [] cls \in {"Pip", "Pip2", "Pip3"} -> "Pip"
      [] OTHER -> None

\* The command update_all_cmd hands to the shell for one package.
upgrade_call(cls, program, package) ==
    IF cls = "HomebrewCask"
    THEN <<program, "cask", "reinstall">> \o package.name
    ELSE <<program, "install", "-U">> \o package.name

(***************************************************************************)
(* What is kept of a sync for the properties.                              *)
(***************************************************************************)
\* The command lines of the commands started.
Started(cmds) == [i \in DOMAIN cmds |-> [how |-> cmds[i].how, argv |-> cmds[i].argv]]

\* A command that exited non-zero with diagnostic text.
Failed(c) == c.rc # 0 /\ c.err # ""

\* Of one sync of an instance of cls with outcome o: the exception raised,
\* the diagnostic texts of the commands that failed, in order, the text of
\* the last command started when that one failed (None otherwise), and
\* whether the listing command ran and wrote nothing.
Digest(c, o) ==
    [cls |-> c,
     exc |-> o.exc,
     failures |-> LET f == SelectSeq(o.cmds, Failed)
                  IN [i \in DOMAIN f |-> f[i].err],
     last |-> IF o.cmds # <<>> /\ Failed(o.cmds[Len(o.cmds)])
              THEN o.cmds[Len(o.cmds)].err ELSE None,
     commands |-> Len(o.cmds),
     silent |-> \E i \in DOMAIN o.cmds :
                    o.cmds[i].role = "list" /\ o.cmds[i].empty]

(***************************************************************************)
(* State.                                                                  *)
(***************************************************************************)
VARIABLES
    \* The host as the program found it: the managers whose availability
    \* probe succeeded ({} before the probes), and whether Gems.__init__
    \* found /usr/local/bin/gem (FALSE where no Gems instance is used).
    host, gemHomebrew,
    \* One run of the program (__main__): the parsed command line, the
    \* position in the code, the active adapters in order and their
    \* instances, the commands started, the lines printed.
    argv, pc, managers, objs, stdout,
    \* The external commands started: by the run, or by the last sync() of
    \* the client below.
    cmdlog,
    \* What happened in each sync made so far, in order (kept for the
    \* properties): see Digest.
    seen,
    \* A client of the adapter classes: one instance of class cls, the
    \* answers the tools give while it is used, the number of sync() calls
    \* made, the instance before the last call, the exception of the last
    \* call and the last value update_all_cli() returned.
    cls, self, tool, calls, before, raised, ret,
    \* The version normalisation alone: the comma-separated parts of an
    \* installed-versions field and the version chosen for them.
    parts, version

vars == <<host, gemHomebrew, argv, pc, managers, objs, cmdlog, stdout, seen,
          cls, self, tool, calls, before, raised, ret, parts, version>>

runVars == <<argv, pc, managers, objs, stdout>>
clientVars == <<cls, self, tool, calls, before, raised, ret>>
versionVars == <<parts, version>>

\* No call of update_all_cli() yet.
NotCalled == [kind |-> "not called"]

\* The parts of the state a specification does not use stay as they are here.
NoRun ==
    /\ argv = <<>> /\ pc = "off" /\ managers = <<>> /\ objs = <<>>
    /\ stdout = <<>>

NoClient ==
    /\ cls = None /\ self = NewAdapter /\ tool = None /\ calls = 0
    /\ before = NewAdapter /\ raised = None /\ ret = NotCalled

NoVersion == parts = <<>> /\ version = None

NoHost == host = {} /\ gemHomebrew = FALSE

(***************************************************************************)
(* A client of one adapter instance: it constructs the instance, then      *)
(* calls sync() and update_all_cli() in any order while the tools keep     *)
(* giving the same answers.                                                *)
(***************************************************************************)
InitClient ==
    /\ cls \in Managers
    /\ host = {}
    /\ gemHomebrew \in (IF cls = "Gems" THEN BOOLEAN ELSE {FALSE})
    /\ tool \in IOs(cls)
    /\ self = NewAdapter /\ calls = 0 /\ before = NewAdapter
    /\ raised = None /\ ret = NotCalled /\ cmdlog = <<>> /\ seen = <<>>
    /\ NoRun /\ NoVersion

\* instance.sync()
CallSync ==
    /\ calls < MaxSyncs
    /\ LET o == sync(cls, self, cli(cls, gemHomebrew), tool)
       IN /\ self' = [updates |-> o.updates, error |-> o.error, map |-> o.map]
          /\ raised' = o.exc
          /\ cmdlog' = cmdlog \o Started(o.cmds)
          /\ seen' = Append(seen, Digest(cls, o))
    /\ before' = self
    /\ calls' = calls + 1
    /\ UNCHANGED <<host, gemHomebrew, cls, tool, ret, runVars, versionVars>>

\* instance.update_all_cli()
CallUpdateAllCli ==
    /\ ret = NotCalled
    /\ ret' = update_all_cli(cls, self, cli(cls, gemHomebrew), gemHomebrew)
    /\ UNCHANGED <<host, gemHomebrew, cls, self, tool, calls, before, raised,
                   cmdlog, seen, runVars, versionVars>>

NextClient == CallSync \/ CallUpdateAllCli

SpecClient == InitClient /\ [][NextClient]_vars

(***************************************************************************)
(* The version normalisation of HomebrewCask.sync alone: the parts of an   *)
(* installed-versions field are drawn, then the version is chosen.         *)
(***************************************************************************)
\* Most comma-separated parts in one installed-versions field.
MaxParts == 3

\* The parts: versions, "latest", and the empty part of "a,,b".
VersionTokens == {"", "latest", "1.2beta5", "50.0.1", "v2"}

InitVersion ==
    /\ parts \in UNION {[1..n -> VersionTokens] : n \in 0..MaxParts}
    /\ version = None
    /\ NoHost /\ NoRun /\ NoClient /\ cmdlog = <<>> /\ seen = <<>>

Normalise ==
    /\ version = None
    /\ version' = InstalledVersion(parts)
    /\ UNCHANGED <<parts, host, gemHomebrew, cmdlog, seen, runVars, clientVars>>

NextVersion == Normalise

SpecVersion == InitVersion /\ [][NextVersion]_vars

(***************************************************************************)
(* Properties of one adapter instance (SpecClient).                        *)
(***************************************************************************)
\* What is kept of the last sync() call.
LastSync == seen[Len(seen)]

\* C1: calling sync() twice on one instance while the tools answer the same
\* leaves updates as it was after the first call.
C1_SyncIdempotent ==
    (calls >= 2 /\ raised = None) => self.updates = before.updates

\* The last sync()'s listing command ran and returned the empty text.
ListedNothing == calls >= 1 /\ LastSync.silent

\* C3 as stated: when the "list outdated" command returns the empty text,
\* whatever its exit status and diagnostic text, sync() leaves updates empty
\* and the error None.
C3_EmptyOutputNoError ==
    ListedNothing => self.updates = <<>> /\ self.error = None

\* C3 amended: when the "list outdated" command returns the empty text,
\* sync() returns without raising and adds no record (updates is empty on a
\* new instance); the error is None unless that command exited non-zero with
\* diagnostic text, and then it is that text.
C3_EmptyOutputAddsNothing ==
    ListedNothing =>
        /\ raised = None
        /\ self.updates = before.updates
        /\ (calls = 1 => self.updates = <<>>)
        /\ self.error = IF tool.list.rc # 0 /\ tool.list.err # ""
                        THEN tool.list.err ELSE None

\* The case of C3: the listing command printed nothing, exited non-zero and
\* wrote diagnostic text, which is now the adapter's error.
C3_Witness ==
    /\ ListedNothing
    /\ tool.list.rc # 0
    /\ self.error = "list failed"
    /\ self.updates = <<>>

\* C4 as stated: when sync() returns, the error is the diagnostic text of
\* every command of that sync that exited non-zero with diagnostic text.
C4_EveryFailureSurfaced ==
    (calls >= 1 /\ raised = None) =>
        \A i \in DOMAIN LastSync.failures : self.error = LastSync.failures[i]

\* C4 amended: when sync() returns, the error is the diagnostic text of the
\* last command the sync started if that command exited non-zero with
\* diagnostic text, and None otherwise.
C4_LastCommandDecides ==
    (calls >= 1 /\ raised = None) => self.error = LastSync.last

\* The case of C4: `brew update` failed with diagnostic text, `brew
\* outdated` did not, and the sync returned with no error kept.
C4_Witness ==
    /\ calls >= 1 /\ raised = None
    /\ cls = "Homebrew"
    /\ LastSync.failures = <<"update failed">>
    /\ self.error = None
    /\ self.updates # <<>>

\* The adapters that parse their tool's output line by line with a regular
\* expression.
LineManagers == {"Pip2", "Pip3", "Gems", "MAS"}

\* The lines of the listing the last sync() read.
ListedLines == IF tool.list.spawn THEN tool.list.out.body ELSE <<>>

\* C5: for Pip, Gems and MAS, a line that does not match the regular
\* expression is dropped without raising and updates gains exactly the
\* records of the matching lines.
C5_MalformedLineSkipped ==
    (calls >= 1 /\ cls \in LineManagers /\ Garbage \in Range(ListedLines)) =>
        /\ raised = None
        /\ Len(self.updates) =
              Len(before.updates)
              + Cardinality({i \in DOMAIN ListedLines :
                                ListedLines[i] \notin {Garbage, Blank}})

\* The adapters without a native "upgrade all" command.
SelfUpgraded == {"HomebrewCask", "Pip2", "Pip3"}

Concrete == {parts[i] : i \in DOMAIN parts} \ {"", "latest"}

\* The field lists no version twice (it is a set).
IsVersionSet ==
    \A i, j \in DOMAIN parts : parts[i] = parts[j] /\ parts[i] # "" => i = j

HasLatest == "latest" \in Range(parts)

\* C10 as stated: with "latest" and a concrete version the greatest concrete
\* version is chosen; with "latest" alone the fallback "?" is chosen.
C10_LatestNeverChosen ==
    (version # None /\ IsVersionSet /\ HasLatest) =>
        IF Concrete # {}
        THEN version \in Concrete /\ \A c \in Concrete : ~StrLess(version, c)
        ELSE version = "?"

\* C10 amended: with "latest" and a concrete version the greatest concrete
\* version is chosen, never "latest"; with "latest" alone the version chosen
\* is "latest" itself; the fallback "?" is chosen for an empty set only.
C10_LatestOnlyWhenAlone ==
    (version # None /\ IsVersionSet) =>
        /\ (HasLatest /\ Concrete # {}) =>
              version \in Concrete /\ \A c \in Concrete : ~StrLess(version, c)
        /\ (HasLatest /\ Concrete = {}) => version = "latest"
        /\ version = "?" <=> (~HasLatest /\ Concrete = {})

\* The cases of C10: "latest" alone was normalised to "latest".
C10_Witness ==
    /\ version = "latest"
    /\ HasLatest /\ Concrete = {}

(***************************************************************************)
(* One run of the program.                                                 *)
(***************************************************************************)
\* The identifiers given to the upgrade sub-command: every global name of
\* the module, and one that is none.
Identifiers == GlobalNames \cup {"NoSuchManager"}

\* The command lines: no argument (the command defaults to "menu"), or
\* "upgrade" with at most one option.
CommandLines ==
    {[command |-> "menu", options |-> <<>>], [command |-> "upgrade", options |-> <<>>]}
    \cup {[command |-> "upgrade", options |-> <<id>>] : id \in Identifiers}

\* The hosts: HomebrewCask passes its probe only where Homebrew does.
Hosts ==
    {h \in SUBSET Managers :
        /\ Cardinality(h) <= MaxActive
        /\ "HomebrewCask" \in h => "Homebrew" \in h}

\* The command HomebrewCask.active starts on host h when brew is there.
CaskProbe(h) ==
    IF "Homebrew" \in h
    THEN <<[how |-> "Popen", argv |-> <<cli("HomebrewCask", FALSE), "cask">>]>>
    ELSE <<>>

Init ==
    /\ host = {}
    /\ gemHomebrew = FALSE
    /\ argv \in CommandLines
    /\ pc = "main"
    /\ managers = <<>> /\ objs = <<>> /\ stdout = <<>>
    /\ cmdlog = <<>> /\ seen = <<>>
    /\ NoClient /\ NoVersion

\* print_menu up to the filter: every manager is instantiated and the
\* inactive ones are dropped.
EnterMenu ==
    /\ \E h \in Hosts :
          /\ host' = h
          /\ managers' = SelectSeq(ManagerOrder, LAMBDA c : c \in h)
          /\ objs' = [i \in 1..Cardinality(h) |-> NewAdapter]
          /\ cmdlog' = cmdlog \o CaskProbe(h)
          /\ gemHomebrew' \in (IF "Gems" \in h THEN BOOLEAN ELSE {FALSE})
    /\ pc' = "sync"
    /\ UNCHANGED <<stdout, seen>>

\* __main__ with any command but "upgrade": print_menu().
MainMenu ==
    /\ pc = "main" /\ argv.command # "upgrade"
    /\ EnterMenu
    /\ UNCHANGED <<argv, clientVars, versionVars>>

\* __main__ with "upgrade" and an identifier that cannot be instantiated:
\* none given (IndexError), no such global (KeyError), a global that cannot
\* be called (TypeError).  The except clause swallows the exception.
UpgradeUnknown ==
    /\ pc = "main" /\ argv.command = "upgrade"
    /\ \/ argv.options = <<>>
       \/ /\ argv.options # <<>>
          /\ argv.options[1] \notin Classes \cup GlobalFunctions
    /\ pc' = "done"
    /\ UNCHANGED <<host, gemHomebrew, argv, managers, objs, stdout, cmdlog, seen,
                   clientVars, versionVars>>

\* __main__ with "upgrade print_menu": globals()["print_menu"]() runs the
\* menu inside the try block.
UpgradeFunction ==
    /\ pc = "main" /\ argv.command = "upgrade"
    /\ argv.options # <<>> /\ argv.options[1] \in GlobalFunctions
    /\ EnterMenu
    /\ UNCHANGED <<argv, clientVars, versionVars>>

\* __main__ with "upgrade" and the name of a class: the class is
\* instantiated and update_all_cmd() is called; PackageManager's does
\* nothing.
UpgradeClass ==
    /\ pc = "main" /\ argv.command = "upgrade"
    /\ argv.options # <<>> /\ ClassNamed(argv.options[1]) # None
    /\ managers' = <<ClassNamed(argv.options[1])>>
    /\ objs' = <<NewAdapter>>
    /\ pc' = IF update_all_cmd_owner(ClassNamed(argv.options[1])) = None
             THEN "done" ELSE "upgrade_sync"
    /\ UNCHANGED <<host, gemHomebrew, argv, stdout, cmdlog, seen,
                   clientVars, versionVars>>

\* The first sync of a new instance of each class, under every answer of
\* its tool: print_menu and the upgrade sub-command only ever sync the
\* instances they have just constructed.
FirstSyncs ==
    [c \in Classes |->
        [g \in BOOLEAN |->
            {sync(c, NewAdapter, cli(c, g), io) : io \in IOs(c)}]]

\* Whether an exception is raised inside the try block of __main__.
InTry == argv.command = "upgrade"

\* map(methodcaller('sync'), managers): the sync of the next manager.  An
\* exception ends the map; outside the try block it ends the program.
SyncNext ==
    /\ pc = "sync" /\ Len(seen) < Len(managers)
    /\ LET i == Len(seen) + 1
           c == managers[i]
       IN \E o \in FirstSyncs[c][gemHomebrew] :
            /\ objs[i] = NewAdapter
            /\ objs' = [objs EXCEPT ![i] = [updates |-> o.updates,
                                            error |-> o.error,
                                            map |-> o.map]]
            /\ cmdlog' = cmdlog \o Started(o.cmds)
            /\ seen' = Append(seen, Digest(c, o))
            /\ pc' = IF o.exc = None THEN "sync"
                     ELSE IF InTry THEN "done" ELSE "crashed"
    /\ UNCHANGED <<host, gemHomebrew, argv, managers, stdout,
                   clientVars, versionVars>>

\* The lines print_menu prints for one manager.
PackageLines(c, obj) ==
    [j \in DOMAIN obj.updates |->
        [line |-> "package",
         name |-> obj.updates[j].name,
         installed_version |-> obj.updates[j].installed_version,
         latest_version |-> obj.updates[j].latest_version,
         cli |-> update_cli(c, obj, cli(c, gemHomebrew), gemHomebrew,
                            obj.updates[j].name)]]

Section(c, obj) ==
    <<[line |-> "---"]>>
    \o (IF obj.error # None
        THEN <<[line |-> "error", text |-> obj.error]>> ELSE <<>>)
    \o <<[line |-> "count", packages |-> Len(obj.updates), name |-> name(c),
          plural |-> Len(obj.updates) # 1]>>
    \o (IF update_all_cli(c, obj, cli(c, gemHomebrew), gemHomebrew) # NoneValue
           /\ obj.updates # <<>>
        THEN <<[line |-> "Upgrade all",
                cli |-> update_all_cli(c, obj, cli(c, gemHomebrew), gemHomebrew)]>>
        ELSE <<>>)
    \o PackageLines(c, obj)

RECURSIVE Sections(_)
Sections(i) ==
    IF i > Len(managers) THEN <<>>
    ELSE Section(managers[i], objs[i]) \o Sections(i + 1)

\* Mutant of total_updates: the records of an adapter with an error are
\* not counted.
RECURSIVE total_updates_without_failed(_)
total_updates_without_failed(i) ==
    IF i > Len(managers) THEN 0
    ELSE (IF objs[i].error # None THEN 0 ELSE Len(objs[i].updates))
         + total_updates_without_failed(i + 1)

\* sum([len(m.updates) for m in managers])
RECURSIVE total_updates(_)
total_updates(i) ==
    IF i > Len(managers) THEN 0
    ELSE Len(objs[i].updates) + total_updates(i + 1)

\* len([True for m in managers if m.error])
errors == Cardinality({i \in DOMAIN managers : objs[i].error # None})

\* The menu bar line.
Title == [line |-> "title", total |-> total_updates(1), errors |-> errors]

\* The rest of print_menu once every manager is synced: the totals and the
\* menu are printed.  When print_menu was called by the upgrade
\* sub-command, update_all_cmd() of the None it returned raises
\* AttributeError, which is swallowed.
print_menu ==
    /\ pc = "sync" /\ Len(seen) = Len(managers)
    /\ stdout' = <<Title>> \o Sections(1)
    /\ pc' = "done"
    /\ UNCHANGED <<host, gemHomebrew, argv, managers, objs, cmdlog, seen,
                   clientVars, versionVars>>

\* update_all_cmd of HomebrewCask and Pip, first statement: self.sync().
\* An exception leaves update_all_cmd and is swallowed by __main__.
UpgradeSync ==
    /\ pc = "upgrade_sync"
    /\ LET c == managers[1]
       IN \E o \in FirstSyncs[c][gemHomebrew] :
            /\ objs[1] = NewAdapter
            /\ objs' = <<[updates |-> o.updates, error |-> o.error,
                          map |-> o.map]>>
            /\ cmdlog' = cmdlog \o Started(o.cmds)
            /\ seen' = Append(seen, Digest(c, o))
            /\ pc' = IF o.exc = None THEN "upgrade_loop" ELSE "done"
    /\ UNCHANGED <<host, gemHomebrew, argv, managers, stdout,
                   clientVars, versionVars>>

\* The upgrades handed to the shell so far.
Upgrades == SelectSeq(cmdlog, LAMBDA c : c.how = "shell")

\* update_all_cmd, the loop: call(..., shell=True) for the next package.
UpgradeNext ==
    /\ pc = "upgrade_loop"
    /\ Len(Upgrades) < Len(objs[1].updates)
    /\ cmdlog' = Append(cmdlog,
          [how |-> "shell",
           argv |-> upgrade_call(managers[1], cli(managers[1], gemHomebrew),
                                 objs[1].updates[Len(Upgrades) + 1])])
    /\ UNCHANGED <<host, gemHomebrew, argv, pc, managers, objs, stdout, seen,
                   clientVars, versionVars>>

\* update_all_cmd returns after the last package.
UpgradeDone ==
    /\ pc = "upgrade_loop"
    /\ Len(Upgrades) = Len(objs[1].updates)
    /\ pc' = "done"
    /\ UNCHANGED <<host, gemHomebrew, argv, managers, objs, stdout, cmdlog, seen,
                   clientVars, versionVars>>

Next ==
    \/ MainMenu
    \/ UpgradeUnknown
    \/ UpgradeFunction
    \/ UpgradeClass
    \/ SyncNext
    \/ print_menu
    \/ UpgradeSync
    \/ UpgradeNext
    \/ UpgradeDone

Spec == Init /\ [][Next]_vars

(***************************************************************************)
(* Properties of the program (Spec).                                       *)
(***************************************************************************)
\* The run has ended, normally or by an exception nobody caught.
Ended == pc \in {"done", "crashed"}

\* The menu was printed.
Printed == stdout # <<>>

\* C2: in every aggregator run, whatever happens during the sync of one
\* active adapter, the run is not aborted: when it ends every active adapter
\* has been synced and has its section in the menu.
C2_FailureIsolated ==
    (argv.command = "menu" /\ Ended) =>
        /\ pc = "done"
        /\ Len(seen) = Len(managers)
        /\ \A i \in DOMAIN managers :
              \E j \in DOMAIN stdout :
                  stdout[j].line = "count" /\ stdout[j].name = name(managers[i])

\* Scenario D: the menu of two active adapters, the sync of adapter i ran no
\* failing command and left 3 records, a command of the sync of adapter j
\* exited non-zero with diagnostic text.
ScenarioD(i, j) ==
    /\ Printed
    /\ Len(managers) = 2
    /\ i # j
    /\ seen[i].failures = <<>>
    /\ Len(objs[i].updates) = 3
    /\ seen[j].failures # <<>>

\* C6 as stated: in scenario D the total is 3, the error count is 1 and the
\* failing adapter has no record, whatever its command wrote.
C6_FailingAdapterAddsNothing ==
    \A i, j \in DOMAIN managers :
        ScenarioD(i, j) =>
            /\ stdout[1].total = 3
            /\ stdout[1].errors = 1
            /\ objs[j].updates = <<>>

\* C6 amended: in scenario D the total is 3 plus the records the failing
\* adapter parsed from what its commands wrote, none when its listing
\* command wrote nothing; the error count is 1 when the failing command is
\* the last one of its sync and 0 otherwise.  No menu is printed when a
\* sync raised.
C6_FailingAdapterAddsWhatItParsed ==
    /\ \A i, j \in DOMAIN managers :
          ScenarioD(i, j) =>
              /\ stdout[1].total = 3 + Len(objs[j].updates)
              /\ stdout[1].errors = (IF seen[j].last # None THEN 1 ELSE 0)
              /\ seen[j].silent => objs[j].updates = <<>>
    /\ (\E j \in DOMAIN seen : seen[j].exc # None) => ~Printed

\* The case of C6: the failing command listed two packages before it
\* exited non-zero, and the menu counts 5 updates and 1 error.
C6_Witness ==
    \E i, j \in DOMAIN managers :
        /\ ScenarioD(i, j)
        /\ seen[j].last # None
        /\ Len(objs[j].updates) = 2
        /\ stdout[1].total = 5
        /\ stdout[1].errors = 1

\* The upgrade sub-command was given the name of an adapter of the fixed set.
UpgradeOfManager ==
    /\ argv.command = "upgrade"
    /\ argv.options # <<>>
    /\ argv.options[1] \in Managers

\* The command line that reinstalls or upgrades package p of manager m.
UpgradeLine(m, p) ==
    IF m = "HomebrewCask"
    THEN <<"/usr/local/bin/brew", "cask", "reinstall">> \o p.name
    ELSE <<cli(m, FALSE), "install", "-U">> \o p.name

\* The records of the instance the sub-command made, once it is made.
Outdated == IF objs = <<>> THEN <<>> ELSE objs[1].updates

\* C7 as stated: for each of the eight managers the upgrade sub-command
\* syncs the manager, then upgrades every record of updates in order.
C7_EveryManagerUpgrades ==
    (UpgradeOfManager /\ pc = "done") =>
        /\ Len(seen) = 1
        /\ seen[1].exc = None
        /\ Len(Upgrades) = Len(Outdated)
        /\ \A k \in DOMAIN Upgrades :
              Upgrades[k].argv = UpgradeLine(argv.options[1], Outdated[k])

\* C7 amended: for HomebrewCask, Pip2 and Pip3 no upgrade is started before
\* the sync has returned, the upgrades started are those of the records of
\* updates, in order, all of them once the sub-command ends, and none when
\* the sync raised; for Homebrew, NPM, APM, Gems and MAS the sub-command
\* syncs nothing, starts no command and prints nothing.
C7_OnlyCaskAndPipUpgrade ==
    UpgradeOfManager =>
        IF argv.options[1] \in SelfUpgraded
        THEN /\ Upgrades # <<>> => (Len(seen) = 1 /\ seen[1].exc = None)
             /\ \A a, b \in DOMAIN cmdlog :
                   (cmdlog[a].how = "shell" /\ cmdlog[b].how = "Popen") => b < a
             /\ Len(Upgrades) <= Len(Outdated)
             /\ \A k \in DOMAIN Upgrades :
                   Upgrades[k].argv = UpgradeLine(argv.options[1], Outdated[k])
             /\ pc = "done" =>
                   /\ Len(seen) = 1
                   /\ Len(Upgrades) = (IF seen[1].exc = None
                                       THEN Len(Outdated) ELSE 0)
             /\ ~Printed
        ELSE seen = <<>> /\ cmdlog = <<>> /\ ~Printed

\* The case of C7: `upgrade HomebrewCask` has ended after the sync found two
\* outdated casks and both were reinstalled.
C7_Witness ==
    /\ UpgradeOfManager /\ pc = "done"
    /\ argv.options[1] = "HomebrewCask"
    /\ Len(Outdated) = 2
    /\ Len(Upgrades) = 2
    /\ Upgrades[1].argv # Upgrades[2].argv

\* C8: with no identifier, or one that names no adapter of the fixed set,
\* the upgrade sub-command ends having started no command, synced no
\* adapter and printed nothing.
C8_UnknownIdentifierDoesNothing ==
    (/\ argv.command = "upgrade"
     /\ (argv.options = <<>> \/ argv.options[1] \notin Managers)
     /\ pc = "done") =>
        /\ cmdlog = <<>>
        /\ seen = <<>>
        /\ ~Printed

\* The parameters update_cli puts before the package in the descriptor of
\* manager m: the fixed arguments of the command, and the gem executable
\* itself where the command starts with sudo.
FixedParameters(m) ==
    CASE m = "NPM" -> 3
      [] m = "Gems" -> (IF gemHomebrew THEN 1 ELSE 2)
      [] m = "MAS" -> 1
      [] OTHER -> 2

\* The descriptors print_menu printed for the records of manager i.
PackageClis(i) ==
    {l.cli : l \in Range(PackageLines(managers[i], objs[i]))}

\* C11: every record name a sync produces holds no whitespace where it is
\* used: the descriptor printed for each record of each adapter carries the
\* package as exactly one parameter after the fixed ones, and so does each
\* upgrade the upgrade sub-command starts (the program, two fixed arguments
\* and the package).
C11_PackageIsOneParameter ==
    /\ Printed =>
          \A i \in DOMAIN managers : \A d \in PackageClis(i) :
              /\ d.kind = "cli"
              /\ Len(d.params) = FixedParameters(managers[i]) + 1
    /\ \A k \in DOMAIN Upgrades : Len(Upgrades[k].argv) = 4

====
